---- MODULE Spec2Model ----
(***************************************************************************)
(* Attendance session manager and leave ledger of the HRM backend.         *)
(*                                                                         *)
(* Time is counted in seconds (the source counts milliseconds; every       *)
(* instant of the model is a whole second).  A timestamp is                *)
(* day * DAY + seconds since local midnight.  Day numbers are chosen so    *)
(* that day % 7 is Date.getDay() (0 = Sunday, 6 = Saturday).               *)
(*                                                                         *)
(* The document store is modelled as the schemas declare it: a save()      *)
(* of a loaded document writes the paths whose value changed since the     *)
(* load, a save() of a new document inserts it, validators run before the  *)
(* write, unique indexes refuse a duplicate key, and only paths declared   *)
(* by the schema are stored.                                               *)
(***************************************************************************)
EXTENDS Integers, Sequences, FiniteSets, TLC

\* ------------------------------------------------------------------ bounds
MaxReq == 2          \* request slots that can be in flight at once

\* ------------------------------------------------- constants of the source
OFFICE_START_HOUR == 9
OFFICE_START_MINUTE == 30
OFFICE_END_HOUR == 18
OFFICE_END_MINUTE == 30
MIN_PRESENT_MINUTES == 270
MINUTE == 60         \* 60000 ms
HOUR == 60 * MINUTE
DAY == 24 * HOUR     \* 24 * 60 * 60 * 1000 ms

Employees == {"e1"}
Reqs == 1..MaxReq
Null == -1

HMS(h, m, s) == h * HOUR + m * MINUTE + s
\* the instants of a day at which the clock can stand
Instants ==
  { HMS(9, 30, 0), HMS(13, 59, 30), HMS(14, 0, 0), HMS(14, 1, 0),
    HMS(18, 30, 0), HMS(18, 31, 0) }
\* the model's day is day 1, a Monday
Today == 1
Times == { Today * DAY + i : i \in Instants }

VARIABLES
  clock,        \* new Date()
  holidays,     \* days the Holiday collection marks for the employee
  att,          \* the Attendance collection
  nextId,       \* next _id of the Attendance collection
  autoStopped,  \* history: _ids whose checkOut was last written by auto-stop
  req,          \* the requests in flight, per slot
  resp,         \* the answer sent by the last step (NoResp when it sent none)
  lnow,         \* new Date() of the leave ledger, in half days
  leaves,       \* the Leave collection
  nextLeaveId,  \* next _id of the Leave collection
  lreq,         \* the leave requests in flight, per slot
  lresp         \* the answer sent by the last leave step

attVars == <<clock, holidays, att, nextId, autoStopped, req, resp>>
leaveVars == <<lnow, leaves, nextLeaveId, lreq, lresp>>
vars == <<clock, holidays, att, nextId, autoStopped, req, resp,
          lnow, leaves, nextLeaveId, lreq, lresp>>

\* ------------------------------------------------------------ time helpers
getDayStart(d) == (d \div DAY) * DAY
getOfficeEnd(d) == getDayStart(d) + HMS(OFFICE_END_HOUR, OFFICE_END_MINUTE, 0)
getOfficeStart(d) == getDayStart(d) + HMS(OFFICE_START_HOUR, OFFICE_START_MINUTE, 0)

\* variant: the cut-off lies a minute after the midpoint
isAfterHalfLate(d) ==
  LET start == getOfficeStart(d)
      end == getOfficeEnd(d)
  IN d > start + (end - start) \div 2 + MINUTE

\* variant: the midpoint itself already counts as past the half
isAfterHalfInclusive(d) ==
  LET start == getOfficeStart(d)
      end == getOfficeEnd(d)
  IN d >= start + (end - start) \div 2

isAfterHalfOfOfficeTime(d) ==
  LET start == getOfficeStart(d)
      end == getOfficeEnd(d)
      durationMs == end - start
      halfPoint == start + durationMs \div 2
  IN d > halfPoint

Max(a, b) == IF a >= b THEN a ELSE b

computeWorkedMinutes(checkIn, checkOut) ==
  IF checkIn = Null \/ checkOut = Null THEN 0
  ELSE Max(0, (checkOut - checkIn) \div MINUTE)

isWeekend(d) == LET day == (d \div DAY) % 7 IN day = 0 \/ day = 6
isHoliday(d) == (d \div DAY) \in holidays


\* ------------------------------------------------------------- documents
\* paths the Attendance schema declares (punchInImageUrl, punchOutImageUrl and
\* sessionStatus are written inside the options of checkOut, so they are no paths)
SchemaPaths ==
  { "id", "employee", "date", "checkIn", "checkOut", "status",
    "checkInLocation", "checkOutLocation" }

\* a document in memory: the stored paths plus the properties a handler sets on it
Load(rec) ==
  rec @@ [sessionStatus |-> "none", punchInImageUrl |-> "none",
          punchOutImageUrl |-> "none"]

Stored(mem) == [f \in SchemaPaths |-> mem[f]]

NoRec ==
  [id |-> 0, employee |-> "none", date |-> Null, checkIn |-> Null,
   checkOut |-> Null, status |-> "none", checkInLocation |-> "none",
   checkOutLocation |-> "none"]
NoDoc == Load(NoRec)

\* validator of checkIn: on the same date as the record
checkInValidator(m) ==
  m.checkIn = Null \/ m.date = Null \/ getDayStart(m.checkIn) = getDayStart(m.date)

\* variant: a check-out at the instant of the check-in passes
checkOutValidatorLoose(m) ==
  m.checkOut = Null \/ m.checkIn = Null \/ m.checkOut >= m.checkIn

\* validator of checkOut: after checkIn
checkOutValidator(m) ==
  m.checkOut = Null \/ m.checkIn = Null \/ m.checkOut > m.checkIn

\* variant: the collection has no unique index
attendanceIndexNone(store, m) == TRUE

\* unique index {employee: 1, date: 1}
attendanceIndex(store, m) ==
  \A r \in store : ~(r.employee = m.employee /\ r.date = m.date)

\* Attendance.findOne({employee, date: {$gte: from, $lt: from + 24h}}): the
\* documents it can return (NoDoc when none matches)
attendanceFindOne(emp, from) ==
  LET hit == { r \in att : r.employee = emp /\ r.date >= from /\ r.date < from + DAY }
  IN IF hit = {} THEN {NoDoc} ELSE { Load(r) : r \in hit }

\* document.save(): [err, store] for the loaded document doc changed into mem
attendanceSave(doc, mem) ==
  IF doc.id = 0
  THEN IF ~(checkInValidator(mem) /\ checkOutValidator(mem))
       THEN [err |-> "ValidationError", store |-> att]
       ELSE IF ~attendanceIndex(att, mem)
       THEN [err |-> "DuplicateKey", store |-> att]
       ELSE [err |-> "none", store |-> att \cup {Stored(mem)}]
  ELSE LET modified == { f \in SchemaPaths : mem[f] # doc[f] }
           ok == /\ ("checkIn" \in modified => checkInValidator(mem))
                 /\ ("checkOut" \in modified => checkOutValidator(mem))
       IN IF ~ok
          THEN [err |-> "ValidationError", store |-> att]
          ELSE [err |-> "none",
                store |-> { IF r.id = doc.id
                            THEN [f \in SchemaPaths |->
                                    IF f \in modified THEN mem[f] ELSE r[f]]
                            ELSE r : r \in att }]

\* variant: every escaped exception is answered as an internal error
errorHandlerOpaque(err) == "Internal"

\* the global error handler: the result kind of an exception a handler lets escape
errorHandler(err) ==
  CASE err = "DuplicateKey" -> "Conflict"
    [] err = "ValidationError" -> "ValidationError"
    [] OTHER -> "Internal"

\* ------------------------------------------------------------- requests
IdleReq ==
  [pc |-> "idle", op |-> "none", emp |-> "none", file |-> FALSE, now |-> Null,
   today |-> Null, doc |-> NoDoc, branch |-> "none", res |-> "none",
   err |-> "none", data |-> NoDoc, wrote |-> FALSE, currentStatus |-> "none", canCheckIn |-> FALSE]

NoResp == IdleReq

Free(r) == req[r].pc = "idle"

\* the request of slot r ends with an answer
Finish(r, q, res, data) ==
  /\ req' = [req EXCEPT ![r] = IdleReq]
  /\ resp' = [q EXCEPT !.pc = "done", !.res = res, !.data = data]

\* the request of slot r goes on to its next await
Continue(r, q) ==
  /\ req' = [req EXCEPT ![r] = q]
  /\ resp' = NoResp


\* --------------------------------------------------------- markAttendance
\* variant: the check looks at checkOut instead of checkIn
alreadyCheckedInWrongField(attendance) == attendance.id # 0 /\ attendance.checkOut # Null

\* "already checked in": the day's record exists and has its checkIn set
alreadyCheckedIn(attendance) == attendance.id # 0 /\ attendance.checkIn # Null

\* variant: the upload window of a late-evidence patch never closes
uploadWindowOpen(now, today) == FALSE

\* "upload window has closed": now is past the last instant of today
uploadWindowClosed(now, today) == now > today + DAY - 1

\* markAttendance up to its first upload, for a request that read today, then
\* the date of the holiday and weekend checks (seen), then now: the employee,
\* holiday, weekend and record reads, then the checks of the check-in or
\* check-out branch
markAttendanceAt(r, type, emp, file, today, seen, now) ==
  /\ Free(r)
  /\ LET officeEnd == getOfficeEnd(now)
     IN \E attendance \in attendanceFindOne(emp, today) :
       LET q == [IdleReq EXCEPT !.op = type, !.emp = emp, !.file = file,
                                !.now = now, !.today = today, !.doc = attendance]
       IN
       IF isHoliday(seen) \/ isWeekend(seen)
       THEN Finish(r, q, "PreconditionFailed", NoDoc)
       ELSE IF type = "checkin"
       THEN IF ~file
            THEN Finish(r, q, "ValidationError", NoDoc)
            ELSE IF alreadyCheckedIn(attendance)
            THEN Finish(r, q, "Conflict", NoDoc)
            ELSE IF now > officeEnd
            THEN Finish(r, q, "PreconditionFailed", NoDoc)
            ELSE IF isAfterHalfOfOfficeTime(now)
            THEN Finish(r, q, "PreconditionFailed", NoDoc)
            ELSE Continue(r, [q EXCEPT !.pc = "upload", !.branch = "checkin"])
       ELSE IF attendance.id = 0 \/ attendance.checkIn = Null
            THEN Finish(r, q, "NotFound", NoDoc)
            ELSE IF attendance.checkOut # Null
            THEN IF attendance.punchOutImageUrl = "none"
                 THEN IF ~file
                      THEN Finish(r, q, "ValidationError", NoDoc)
                      ELSE IF uploadWindowClosed(now, today)
                      THEN Finish(r, q, "PreconditionFailed", NoDoc)
                      ELSE Continue(r, [q EXCEPT !.pc = "upload", !.branch = "patch"])
                 ELSE Finish(r, q, "Conflict", NoDoc)
            ELSE IF ~file
            THEN Finish(r, q, "ValidationError", NoDoc)
            ELSE Continue(r, [q EXCEPT !.pc = "upload", !.branch = "checkout"])
  /\ UNCHANGED <<holidays, att, nextId, autoStopped>>
  /\ UNCHANGED leaveVars

\* markAttendance up to its first upload, all its reads of the clock giving
\* the same instant
markAttendance(r, type, emp, file) ==
  /\ markAttendanceAt(r, type, emp, file, getDayStart(clock), clock, clock)
  /\ UNCHANGED clock

\* markAttendance up to its first upload, midnight falling between its reads
\* of the clock: today is read before midnight, now after it
markAttendanceOverMidnight(r, type, emp, file) ==
  LET next == getDayStart(clock) + DAY
  IN /\ \E seen \in {clock, next} :
          markAttendanceAt(r, type, emp, file, getDayStart(clock), seen, next)
     /\ clock' = next

\* variant: a failed upload is answered as a failure, but the record is
\* stored without its evidence
uploadAttendanceBufferKeeps(r, ok) ==
  /\ req[r].pc = "upload"
  /\ IF ok
     THEN Continue(r, [req[r] EXCEPT !.pc = "save"]) /\ att' = att
     ELSE /\ Finish(r, req[r], "UploadError", NoDoc)
          /\ att' = attendanceSave(req[r].doc,
                       [req[r].doc EXCEPT !.id = IF @ = 0 THEN nextId ELSE @,
                                          !.employee = req[r].emp,
                                          !.date = req[r].today,
                                          !.checkIn = IF @ = Null THEN req[r].now ELSE @,
                                          !.checkOut = IF req[r].branch = "checkin"
                                                       THEN @ ELSE req[r].now]).store
  /\ UNCHANGED <<clock, holidays, nextId, autoStopped>>
  /\ UNCHANGED leaveVars

\* uploadAttendanceBuffer: the Evidence Store answers with a URL or fails
uploadAttendanceBuffer(r, ok) ==
  /\ req[r].pc = "upload"
  /\ IF ok
     THEN Continue(r, [req[r] EXCEPT !.pc = "save"])
     ELSE Finish(r, req[r], "UploadError", NoDoc)
  /\ UNCHANGED <<clock, holidays, att, nextId, autoStopped>>
  /\ UNCHANGED leaveVars

\* the document of a check-in, as built or changed in memory
checkInDoc(q) ==
  IF q.doc.id = 0
  THEN [NoDoc EXCEPT !.id = nextId, !.employee = q.emp, !.date = q.today,
                     !.checkIn = q.now, !.status = "Absent",
                     !.sessionStatus = "active", !.checkInLocation = "loc",
                     !.punchInImageUrl = "url"]
  ELSE [q.doc EXCEPT !.checkIn = q.now, !.status = "Absent",
                     !.sessionStatus = "active", !.checkInLocation = "loc",
                     !.punchInImageUrl = "url"]

\* variant: exactly MIN_PRESENT_MINUTES does not count as present
isPresentStrict(workedMinutes) == workedMinutes > MIN_PRESENT_MINUTES

isPresent(workedMinutes) == workedMinutes >= MIN_PRESENT_MINUTES

\* the document of a normal check-out, as changed in memory
checkOutDoc(q) ==
  LET officeEnd == getOfficeEnd(q.now)
      actualCheckout == IF q.now > officeEnd THEN officeEnd ELSE q.now
      workedMinutes == computeWorkedMinutes(q.doc.checkIn, actualCheckout)
  IN [q.doc EXCEPT !.checkOut = actualCheckout, !.checkOutLocation = "loc",
                   !.punchOutImageUrl = "url",
                   !.status = IF isPresent(workedMinutes) THEN "Present" ELSE "Absent",
                   !.sessionStatus = IF q.now > officeEnd THEN "auto-stopped"
                                     ELSE "completed"]

\* the document of a late-evidence patch
patchDoc(q) == [q.doc EXCEPT !.punchOutImageUrl = "url"]

\* markAttendance from the returned upload on: change the document, save, answer
markAttendanceSave(r) ==
  /\ req[r].pc = "save"
  /\ LET q == req[r]
         mem == CASE q.branch = "checkin" -> checkInDoc(q)
                  [] q.branch = "checkout" -> checkOutDoc(q)
                  [] OTHER -> patchDoc(q)
         s == attendanceSave(q.doc, mem)
     IN /\ att' = s.store
        /\ nextId' = IF att' # att /\ q.doc.id = 0 THEN nextId + 1 ELSE nextId
        /\ autoStopped' = IF s.err = "none" /\ q.branch = "checkout"
                          THEN autoStopped \ {q.doc.id} ELSE autoStopped
        /\ IF s.err = "none"
           THEN Finish(r, [q EXCEPT !.wrote = (att' # att)], "Ok", mem)
           ELSE Finish(r, [q EXCEPT !.err = s.err], errorHandler(s.err), NoDoc)
  /\ UNCHANGED <<clock, holidays>>
  /\ UNCHANGED leaveVars

\* --------------------------------------------------- preCheckBeforeUpload
\* variant: the pre-check does not look at the mid-shift cutoff
preCheckBeforeUploadNoCutoff(r, type, emp) ==
  /\ Free(r)
  /\ LET now == clock
         today == getDayStart(now)
         officeEnd == getOfficeEnd(now)
     IN \E existing \in attendanceFindOne(emp, today) :
       LET q == [IdleReq EXCEPT !.op = "precheck", !.branch = type,
                                !.emp = emp, !.now = now, !.today = today,
                                !.doc = existing]
       IN IF type # "checkin" THEN Finish(r, q, "Next", NoDoc)
          ELSE IF isWeekend(now) \/ isHoliday(now)
          THEN Finish(r, q, "PreconditionFailed", NoDoc)
          ELSE IF existing.id # 0 /\ existing.checkIn # Null
          THEN Finish(r, q, "Conflict", NoDoc)
          ELSE IF now > officeEnd
          THEN Finish(r, q, "PreconditionFailed", NoDoc)
          ELSE Finish(r, q, "Next", NoDoc)
  /\ UNCHANGED <<clock, holidays, att, nextId, autoStopped>>
  /\ UNCHANGED leaveVars

\* the middleware in front of markAttendance: it answers a check-in that
\* cannot succeed, and hands every other request on (next())
preCheckBeforeUpload(r, type, emp) ==
  /\ Free(r)
  /\ LET now == clock
         today == getDayStart(now)
         officeEnd == getOfficeEnd(now)
     IN \E existing \in attendanceFindOne(emp, today) :
       LET q == [IdleReq EXCEPT !.op = "precheck", !.branch = type,
                                !.emp = emp, !.now = now, !.today = today,
                                !.doc = existing]
       IN IF type # "checkin" THEN Finish(r, q, "Next", NoDoc)
          ELSE IF isWeekend(now) \/ isHoliday(now)
          THEN Finish(r, q, "PreconditionFailed", NoDoc)
          ELSE IF existing.id # 0 /\ existing.checkIn # Null
          THEN Finish(r, q, "Conflict", NoDoc)
          ELSE IF now > officeEnd
          THEN Finish(r, q, "PreconditionFailed", NoDoc)
          ELSE IF isAfterHalfOfOfficeTime(now)
          THEN Finish(r, q, "PreconditionFailed", NoDoc)
          ELSE Finish(r, q, "Next", NoDoc)
  /\ UNCHANGED <<clock, holidays, att, nextId, autoStopped>>
  /\ UNCHANGED leaveVars

\* ------------------------------------------------- createManualAttendance
\* createManualAttendance up to Attendance.create: the record is looked for in
\* the 24 hours that start at the date of the body
createManualAttendance(r, employee, date, checkIn, checkOut, status) ==
  /\ Free(r)
  /\ \E existingAttendance \in attendanceFindOne(employee, date) :
       LET q == [IdleReq EXCEPT !.op = "manual", !.emp = employee,
                                !.today = date,
                                !.doc = [NoDoc EXCEPT !.employee = employee,
                                           !.date = date, !.checkIn = checkIn,
                                           !.checkOut = checkOut,
                                           !.status = status]]
       IN IF existingAttendance.id # 0
          THEN Finish(r, q, "Conflict", NoDoc)
          ELSE Continue(r, [q EXCEPT !.pc = "create"])
  /\ UNCHANGED <<clock, holidays, att, nextId, autoStopped>>
  /\ UNCHANGED leaveVars

\* createManualAttendance from Attendance.create on
createManualAttendanceCreate(r) ==
  /\ req[r].pc = "create"
  /\ LET q == req[r]
         mem == [q.doc EXCEPT !.id = nextId]
         s == attendanceSave(NoDoc, mem)
     IN /\ att' = s.store
        /\ nextId' = IF s.err = "none" THEN nextId + 1 ELSE nextId
        /\ IF s.err = "none"
           THEN Finish(r, [q EXCEPT !.wrote = TRUE], "Ok", mem)
           ELSE Finish(r, [q EXCEPT !.err = s.err], errorHandler(s.err), NoDoc)
  /\ UNCHANGED <<clock, holidays, autoStopped>>
  /\ UNCHANGED leaveVars

\* ------------------------------------------------------ getTodayAttendance
\* the answer of getTodayAttendance for the document in memory
todayAnswer(q, attendance) ==
  [q EXCEPT
     !.data = attendance,
     !.currentStatus =
        IF attendance.id # 0
        THEN IF attendance.checkIn # Null /\ attendance.checkOut = Null
                /\ q.now <= getOfficeEnd(q.now)
             THEN "active" ELSE "stopped"
        ELSE "idle",
     !.canCheckIn =
        /\ ~isWeekend(clock)
        /\ ~isHoliday(clock)
        /\ ~(attendance.id # 0 /\ attendance.checkIn # Null)
        /\ ~isAfterHalfOfOfficeTime(q.now)
        /\ q.now <= getOfficeEnd(q.now)]

\* the document auto-stop writes
autoStopDoc(q) ==
  LET officeEnd == getOfficeEnd(q.now)
      workedMinutes == computeWorkedMinutes(q.doc.checkIn, officeEnd)
  IN [q.doc EXCEPT !.checkOut = officeEnd,
                   !.status = IF isPresent(workedMinutes) THEN "Present" ELSE "Absent",
                   !.sessionStatus = "auto-stopped"]

\* getTodayAttendance up to the save of an auto-stop (or to its answer)
getTodayAttendance(r, emp) ==
  /\ Free(r)
  /\ LET now == clock
         today == getDayStart(now)
         officeEnd == getOfficeEnd(now)
     IN \E attendance \in attendanceFindOne(emp, today) :
       LET q == [IdleReq EXCEPT !.op = "today", !.emp = emp, !.now = now,
                                !.today = today, !.doc = attendance]
       IN IF /\ attendance.id # 0
             /\ attendance.checkIn # Null
             /\ attendance.checkOut = Null
             /\ now > officeEnd
          THEN Continue(r, [q EXCEPT !.pc = "autostop", !.branch = "autostop"])
          ELSE Finish(r, todayAnswer(q, attendance), "Ok", attendance)
  /\ UNCHANGED <<clock, holidays, att, nextId, autoStopped>>
  /\ UNCHANGED leaveVars

\* getTodayAttendance from the save of the auto-stop on
getTodayAttendanceSave(r) ==
  /\ req[r].pc = "autostop"
  /\ LET q == req[r]
         mem == autoStopDoc(q)
         s == attendanceSave(q.doc, mem)
     IN /\ att' = s.store
        /\ autoStopped' = IF s.err = "none" THEN autoStopped \cup {q.doc.id}
                          ELSE autoStopped
        /\ IF s.err = "none"
           THEN Finish(r, todayAnswer([q EXCEPT !.wrote = (att' # att)], mem), "Ok", mem)
           ELSE Finish(r, [q EXCEPT !.err = s.err], errorHandler(s.err), NoDoc)
  /\ UNCHANGED <<clock, holidays, nextId>>
  /\ UNCHANGED leaveVars

\* ------------------------------------------------------------------ clock
Tick ==
  /\ \E t \in Times : t > clock /\ clock' = t
  /\ resp' = NoResp
  /\ UNCHANGED <<holidays, att, nextId, autoStopped, req>>
  /\ UNCHANGED leaveVars

\* the clock moves on within its day
TickToday ==
  /\ \E i \in Instants : getDayStart(clock) + i > clock
                         /\ clock' = getDayStart(clock) + i
  /\ resp' = NoResp
  /\ UNCHANGED <<holidays, att, nextId, autoStopped, req>>
  /\ UNCHANGED leaveVars

LastDay == 2         \* the last day the clock reaches

\* the clock passes midnight
Midnight ==
  /\ clock \div DAY < LastDay
  /\ clock' = getDayStart(clock) + DAY
  /\ resp' = NoResp
  /\ UNCHANGED <<holidays, att, nextId, autoStopped, req>>
  /\ UNCHANGED leaveVars

\* ============================================================ leave ledger
\* Leave dates and the ledger's clock are counted in half days; totalDays is
\* counted in half days as well (0.5 day = 1).  Hooks run before validators: a
\* document is validated as it is about to be stored.
MaxDay == 2            \* leave dates are the midnights of days 0..MaxDay
MaxLeaves == 2         \* applications the collection can hold
YearDays == 2          \* days of a calendar year of the model
CasualAllocated == 2   \* leaveBalance.casual of the employee, in days
UnpaidAllocated == 0   \* leaveBalance.unpaid, the schema's default
LDAY == 2              \* 1000 * 3600 * 24 ms

LeaveDates == { d * LDAY : d \in 0..MaxDay }
LeaveTypes == {"Casual", "Unpaid"}
Open == {"Pending", "Approved"}

toLowerCase(type) == IF type = "Casual" THEN "casual" ELSE "unpaid"

\* an employee whose casual allocation HR has set to one day
Limited == {"e3"}
LimitedAllocated == 1

\* employee.leaveBalance, in days
leaveBalanceOf(e) ==
  [casual |-> IF e \in Limited THEN LimitedAllocated ELSE CasualAllocated,
   unpaid |-> UnpaidAllocated]

NoLeave ==
  [id |-> 0, employee |-> "none", type |-> "none", fromDate |-> Null,
   toDate |-> Null, totalDays |-> Null, status |-> "none", isHalfDay |-> FALSE,
   approvedBy |-> "none", approvedDate |-> Null, rejectionReason |-> "none"]

LeavePaths ==
  { "id", "employee", "type", "fromDate", "toDate", "totalDays", "status",
    "isHalfDay", "approvedBy", "approvedDate", "rejectionReason" }

\* Math.ceil(a / b) for b > 0
Ceil(a, b) == -((-a) \div b)

\* dateUtils.getDaysDifference, in days
getDaysDifference(date1, date2) ==
  LET diffTime == IF date2 >= date1 THEN date2 - date1 ELSE date1 - date2
  IN Ceil(diffTime, LDAY)

\* pre('save') of the Leave schema: totalDays from the dates and isHalfDay
leavePreSave(m) ==
  IF m.fromDate # Null /\ m.toDate # Null
  THEN LET timeDiff == m.toDate - m.fromDate
           daysDiff == Ceil(timeDiff, LDAY) + 1
       IN [m EXCEPT !.totalDays = IF m.isHalfDay /\ daysDiff = 1 THEN 1
                                  ELSE 2 * daysDiff]
  ELSE m

\* validator of toDate
toDateValidator(m) == m.toDate >= m.fromDate
\* min of totalDays
totalDaysValidator(m) == m.totalDays >= 1

\* variant: the overlap test excludes the end points
checkLeaveConflictStrict(employeeId, fromDate, toDate, excludeLeaveId) ==
  { l \in leaves : /\ l.employee = employeeId
                   /\ l.status \in Open
                   /\ l.fromDate < toDate /\ l.toDate > fromDate
                   /\ (excludeLeaveId # 0 => l.id # excludeLeaveId) }

\* Leave.checkLeaveConflict
checkLeaveConflict(employeeId, fromDate, toDate, excludeLeaveId) ==
  { l \in leaves : /\ l.employee = employeeId
                   /\ l.status \in {"Pending", "Approved"}
                   /\ l.fromDate <= toDate /\ l.toDate >= fromDate
                   /\ (excludeLeaveId # 0 => l.id # excludeLeaveId) }

RECURSIVE SumTotalDays(_)
SumTotalDays(S) ==
  IF S = {} THEN 0
  ELSE LET l == CHOOSE x \in S : TRUE IN l.totalDays + SumTotalDays(S \ {l})

getFullYear(d) == d \div (YearDays * LDAY)

\* Leave.getLeaveBalance: per key of leaveBalance, allocated, used and remaining
\* (all three in half days)
getLeaveBalance(employeeId) ==
  LET currentYear == getFullYear(lnow)
      startOfYear == currentYear * YearDays * LDAY
      endOfYear == startOfYear + (YearDays - 1) * LDAY
      usedLeaves(type) ==
        { l \in leaves : /\ l.employee = employeeId
                         /\ l.status = "Approved"
                         /\ l.fromDate >= startOfYear /\ l.fromDate <= endOfYear
                         /\ toLowerCase(l.type) = type }
      alloc == leaveBalanceOf(employeeId)
  IN [ leaveType \in DOMAIN alloc |->
         LET used == SumTotalDays(usedLeaves(leaveType))
         IN [allocated |-> 2 * alloc[leaveType], used |-> used,
             remaining |-> 2 * alloc[leaveType] - used] ]

\* document.save() of a loaded leave: [err, store]
leaveSave(doc, mem0) ==
  LET mem == leavePreSave(mem0)
      modified == { f \in LeavePaths : mem[f] # doc[f] }
      ok == /\ ("toDate" \in modified => toDateValidator(mem))
            /\ ("totalDays" \in modified => totalDaysValidator(mem))
  IN IF ~ok
     THEN [err |-> "ValidationError", store |-> leaves]
     ELSE [err |-> "none",
           store |-> { IF l.id = doc.id
                       THEN [f \in LeavePaths |->
                               IF f \in modified THEN mem[f] ELSE l[f]]
                       ELSE l : l \in leaves }]

\* Leave.create: [err, store, doc]
leaveCreate(fields) ==
  LET mem == leavePreSave([fields EXCEPT !.id = nextLeaveId, !.status = "Pending"])
  IN IF ~(toDateValidator(mem) /\ totalDaysValidator(mem))
     THEN [err |-> "ValidationError", store |-> leaves, doc |-> NoLeave]
     ELSE [err |-> "none", store |-> leaves \cup {mem}, doc |-> mem]

\* Leave.findByIdAndUpdate(id, fields, {runValidators: true}): [err, store].
\* No pre('save') hook runs. Update validators run on the paths of the update
\* only, and not on a document: the validator of toDate reads this.fromDate
\* where this is not the application, so it finds no fromDate and its
\* comparison fails for every value.
toDateUpdateValidator(fields) == FALSE

leaveFindByIdAndUpdate(id, fields) ==
  LET set == DOMAIN fields
      merged(l) == [f \in LeavePaths |-> IF f \in set THEN fields[f] ELSE l[f]]
      bad == "toDate" \in set /\ ~toDateUpdateValidator(fields)
  IN IF bad
     THEN [err |-> "ValidationError", store |-> leaves]
     ELSE [err |-> "none",
           store |-> { IF l.id = id THEN merged(l) ELSE l : l \in leaves }]

\* ------------------------------------------------------- leave requests
IdleLeaveReq ==
  [pc |-> "idle", op |-> "none", emp |-> "none", type |-> "none",
   fromDate |-> Null, toDate |-> Null, isHalfDay |-> FALSE, given |-> {},
   status |-> "none", now |-> Null,
   reason |-> "none", doc |-> NoLeave, err |-> "none", remaining |-> Null]

\* requests are served by the first free slot
FreeLeave(r) ==
  /\ lreq[r].pc = "idle"
  /\ \A x \in Reqs : x < r => lreq[x].pc # "idle"

\* the answer to a request: the request's inputs, the id of the application it
\* is about, and the outcome
NoBalance ==
  [k \in {"casual", "unpaid"} |->
     [allocated |-> Null, used |-> Null, remaining |-> Null]]

NoLeaveResp ==
  [op |-> "none", emp |-> "none", id |-> 0, type |-> "none", fromDate |-> Null,
   toDate |-> Null, isHalfDay |-> FALSE, status |-> "none", res |-> "none",
   balance |-> NoBalance]

LFinish(r, q, res, data) ==
  /\ lreq' = [lreq EXCEPT ![r] = IdleLeaveReq]
  /\ lresp' = [op |-> q.op, emp |-> q.emp,
               id |-> IF q.op = "apply" THEN data.id ELSE q.doc.id,
               type |-> q.type, fromDate |-> q.fromDate, toDate |-> q.toDate,
               isHalfDay |-> q.isHalfDay, status |-> q.status, res |-> res,
               balance |-> NoBalance]

LContinue(r, q) ==
  /\ lreq' = [lreq EXCEPT ![r] = q]
  /\ lresp' = NoLeaveResp

\* applyLeave up to the answer of checkLeaveConflict
applyLeave(r, e, type, fromDate, toDate, isHalfDay) ==
  /\ FreeLeave(r)
  /\ Cardinality(leaves) + Cardinality({x \in Reqs : lreq[x].op = "apply"}) < MaxLeaves
  /\ LET q == [IdleLeaveReq EXCEPT !.op = "apply", !.emp = e, !.type = type,
                 !.fromDate = fromDate, !.toDate = toDate, !.isHalfDay = isHalfDay]
         conflicts == checkLeaveConflict(e, fromDate, toDate, 0)
     IN IF conflicts # {}
        THEN LFinish(r, q, "Conflict", NoLeave)
        ELSE LContinue(r, [q EXCEPT !.pc = "balance"])
  /\ UNCHANGED <<lnow, leaves, nextLeaveId>>
  /\ UNCHANGED attVars

\* applyLeave from the answer of getLeaveBalance up to Leave.create
applyLeaveBalance(r) ==
  /\ lreq[r].pc = "balance"
  /\ LET q == lreq[r]
         leaveBalance == getLeaveBalance(q.emp)
         leaveTypeKey == toLowerCase(q.type)
         has == leaveTypeKey \in DOMAIN leaveBalance
         totalDays == IF q.isHalfDay THEN 1
                      ELSE 2 * (getDaysDifference(q.fromDate, q.toDate) + 1)
     IN IF has /\ leaveBalance[leaveTypeKey].remaining <= 0
        THEN LFinish(r, q, "ValidationError", NoLeave)
        ELSE IF q.type # "Unpaid" /\ has
                /\ totalDays > leaveBalance[leaveTypeKey].remaining
        THEN LFinish(r, q, "ValidationError", NoLeave)
        ELSE LContinue(r, [q EXCEPT !.pc = "create",
                                    !.remaining = leaveBalance[leaveTypeKey].remaining])
  /\ UNCHANGED <<lnow, leaves, nextLeaveId>>
  /\ UNCHANGED attVars

\* applyLeave from Leave.create on
applyLeaveCreate(r) ==
  /\ lreq[r].pc = "create"
  /\ LET q == lreq[r]
         c == leaveCreate([NoLeave EXCEPT !.employee = q.emp, !.type = q.type,
                             !.fromDate = q.fromDate, !.toDate = q.toDate,
                             !.isHalfDay = q.isHalfDay])
     IN /\ leaves' = c.store
        /\ nextLeaveId' = IF c.err = "none" THEN nextLeaveId + 1 ELSE nextLeaveId
        /\ IF c.err = "none"
           THEN LFinish(r, q, "Ok", c.doc)
           ELSE LFinish(r, [q EXCEPT !.err = c.err], errorHandler(c.err), NoLeave)
  /\ UNCHANGED lnow
  /\ UNCHANGED attVars

\* variant: every application is taken as still to be reviewed
alreadyProcessedNever(leave) == FALSE

\* the guard of updateLeaveStatus: the application has left Pending
alreadyProcessed(leave) == leave.status # "Pending"

\* updateLeaveStatus up to leave.save()
updateLeaveStatus(r, id, status, rejectionReason) ==
  /\ FreeLeave(r)
  /\ \E leave \in leaves :
       /\ leave.id = id
       /\ LET q == [IdleLeaveReq EXCEPT !.op = "review", !.status = status,
                      !.reason = rejectionReason, !.doc = leave,
                      !.now = lnow]
          IN IF alreadyProcessed(leave)
             THEN LFinish(r, q, "Conflict", NoLeave)
             ELSE LContinue(r, [q EXCEPT !.pc = "save"])
  /\ UNCHANGED <<lnow, leaves, nextLeaveId>>
  /\ UNCHANGED attVars

\* variant: a leave that starts this very instant has not started
leaveHasStartedStrict(now, leave) == now > leave.fromDate

\* "leave has started"
leaveHasStarted(now, leave) == now >= leave.fromDate

\* cancelLeave up to leave.save()
cancelLeave(r, id, actor) ==
  /\ FreeLeave(r)
  /\ \E leave \in leaves :
       /\ leave.id = id
       /\ LET q == [IdleLeaveReq EXCEPT !.op = "cancel", !.emp = actor, !.doc = leave]
          IN IF leave.employee # actor
             THEN LFinish(r, q, "Forbidden", NoLeave)
             ELSE IF leave.status = "Rejected" \/ leave.status = "Cancelled"
             THEN LFinish(r, q, "PreconditionFailed", NoLeave)
             ELSE IF leaveHasStarted(lnow, leave)
             THEN LFinish(r, q, "PreconditionFailed", NoLeave)
             ELSE LContinue(r, [q EXCEPT !.pc = "save"])
  /\ UNCHANGED <<lnow, leaves, nextLeaveId>>
  /\ UNCHANGED attVars

\* the document updateLeaveStatus changes in memory
reviewDoc(q) ==
  [q.doc EXCEPT !.status = q.status, !.approvedBy = "hr",
                !.approvedDate = q.now,
                !.rejectionReason = IF q.status = "Rejected" THEN q.reason
                                    ELSE q.doc.rejectionReason]

\* the document cancelLeave changes in memory
cancelDoc(q) == [q.doc EXCEPT !.status = "Cancelled"]

\* leave.save() of updateLeaveStatus and of cancelLeave, and the answer
leaveSaveStep(r) ==
  /\ lreq[r].pc = "save"
  /\ LET q == lreq[r]
         mem == IF q.op = "review" THEN reviewDoc(q) ELSE cancelDoc(q)
         s == leaveSave(q.doc, mem)
     IN /\ leaves' = s.store
        /\ IF s.err = "none"
           THEN LFinish(r, q, "Ok", leavePreSave(mem))
           ELSE LFinish(r, [q EXCEPT !.err = s.err], errorHandler(s.err), NoLeave)
  /\ UNCHANGED <<lnow, nextLeaveId>>
  /\ UNCHANGED attVars

\* updateLeave up to checkLeaveConflict (or to findByIdAndUpdate when no date
\* changes); given is the set of fields the body carries
updateLeave(r, id, actor, given, type, fromDate, toDate, isHalfDay) ==
  /\ FreeLeave(r)
  /\ ("type" \in given) = (type # "none")
  /\ ("fromDate" \in given) = (fromDate # Null)
  /\ ("toDate" \in given) = (toDate # Null)
  /\ ("isHalfDay" \notin given) => ~isHalfDay
  /\ \E leave \in leaves :
       /\ leave.id = id
       /\ LET q == [IdleLeaveReq EXCEPT !.op = "update", !.emp = actor,
                      !.type = type, !.fromDate = fromDate, !.toDate = toDate,
                      !.isHalfDay = isHalfDay, !.given = given,
                      !.doc = leave]
          IN IF leave.employee # actor
             THEN LFinish(r, q, "Forbidden", NoLeave)
             ELSE IF leave.status # "Pending"
             THEN LFinish(r, q, "PreconditionFailed", NoLeave)
             ELSE IF \/ (fromDate # Null /\ fromDate # leave.fromDate)
                     \/ (toDate # Null /\ toDate # leave.toDate)
             THEN LContinue(r, [q EXCEPT !.pc = "conflict"])
             ELSE LContinue(r, [q EXCEPT !.pc = "update"])
  /\ UNCHANGED <<lnow, leaves, nextLeaveId>>
  /\ UNCHANGED attVars

\* updateLeave: the answer of checkLeaveConflict
updateLeaveConflict(r) ==
  /\ lreq[r].pc = "conflict"
  /\ LET q == lreq[r]
         conflicts == checkLeaveConflict(q.emp,
                        IF q.fromDate # Null THEN q.fromDate ELSE q.doc.fromDate,
                        IF q.toDate # Null THEN q.toDate ELSE q.doc.toDate,
                        q.doc.id)
     IN IF conflicts # {}
        THEN LFinish(r, q, "Conflict", NoLeave)
        ELSE LContinue(r, [q EXCEPT !.pc = "update"])
  /\ UNCHANGED <<lnow, leaves, nextLeaveId>>
  /\ UNCHANGED attVars

\* the fields updateLeave sends to findByIdAndUpdate
fieldsToUpdate(q) ==
  [f \in q.given |-> q[f]]

\* updateLeave: findByIdAndUpdate and the answer
updateLeaveWrite(r) ==
  /\ lreq[r].pc = "update"
  /\ LET q == lreq[r]
         s == leaveFindByIdAndUpdate(q.doc.id, fieldsToUpdate(q))
     IN /\ leaves' = s.store
        /\ IF s.err = "none"
           THEN LFinish(r, q, "Ok", NoLeave)
           ELSE LFinish(r, [q EXCEPT !.err = s.err], errorHandler(s.err), NoLeave)
  /\ UNCHANGED <<lnow, nextLeaveId>>
  /\ UNCHANGED attVars

\* the getLeaveBalance handler (GET /api/leaves/balance)
getLeaveBalanceRequest(r, e) ==
  /\ FreeLeave(r)
  /\ lresp' = [NoLeaveResp EXCEPT !.op = "balance", !.emp = e, !.res = "Ok",
                                  !.balance = getLeaveBalance(e)]
  /\ UNCHANGED <<lnow, leaves, nextLeaveId, lreq>>
  /\ UNCHANGED attVars

LeaveTick ==
  /\ lnow + LDAY \in LeaveDates
  /\ lnow' = lnow + LDAY
  /\ lresp' = NoLeaveResp
  /\ UNCHANGED <<leaves, nextLeaveId, lreq>>
  /\ UNCHANGED attVars

Init ==
  /\ clock = Today * DAY + HMS(9, 30, 0)
  /\ holidays \in {{}, {Today}}
  /\ att = {}
  /\ nextId = 1
  /\ autoStopped = {}
  /\ req = [r \in Reqs |-> IdleReq]
  /\ resp = NoResp
  /\ lnow = 0
  /\ leaves = {}
  /\ nextLeaveId = 1
  /\ lreq = [r \in Reqs |-> IdleLeaveReq]
  /\ lresp = NoLeaveResp

CheckIn == \E r \in Reqs, e \in Employees, f \in BOOLEAN : markAttendance(r, "checkin", e, f)
CheckOut == \E r \in Reqs, e \in Employees, f \in BOOLEAN : markAttendance(r, "checkout", e, f)
Upload == \E r \in Reqs, ok \in BOOLEAN : uploadAttendanceBuffer(r, ok)
MarkSave == \E r \in Reqs : markAttendanceSave(r)
TodayQuery == \E r \in Reqs, e \in Employees : getTodayAttendance(r, e)
TodaySave == \E r \in Reqs : getTodayAttendanceSave(r)

Next == CheckIn \/ CheckOut \/ Upload \/ MarkSave \/ TodayQuery \/ TodaySave \/ Tick

Spec == Init /\ [][Next]_vars

\* ---- attendance over several days, its requests served one at a time
AttQuiet == \A x \in Reqs : req[x].pc = "idle"

CheckInOne == AttQuiet /\ CheckIn
CheckOutOne == AttQuiet /\ CheckOut
TodayOne == AttQuiet /\ TodayQuery
MarkOverMidnight ==
  /\ AttQuiet
  /\ clock \div DAY < LastDay
  /\ \E r \in Reqs, e \in Employees, t \in {"checkin", "checkout"} :
        markAttendanceOverMidnight(r, t, e, TRUE)

NextDays ==
  CheckInOne \/ CheckOutOne \/ MarkOverMidnight \/ Upload \/ MarkSave
    \/ TodayOne \/ TodaySave \/ TickToday \/ Midnight

SpecDays == Init /\ [][NextDays]_vars

Apply ==
  \E r \in Reqs, e \in Employees, t \in LeaveTypes, f \in LeaveDates,
     u \in LeaveDates : applyLeave(r, e, t, f, u, FALSE)
ApplyBalance == \E r \in Reqs : applyLeaveBalance(r)
ApplyCreate == \E r \in Reqs : applyLeaveCreate(r)
Review ==
  \E r \in Reqs, id \in 1..MaxLeaves, st \in {"Approved", "Rejected"},
     why \in {"none", "why"} :
       /\ (st = "Approved") = (why = "none")
       /\ updateLeaveStatus(r, id, st, why)
Cancel == \E r \in Reqs, id \in 1..MaxLeaves, e \in Employees : cancelLeave(r, id, e)
SaveLeave == \E r \in Reqs : leaveSaveStep(r)
Update ==
  \E r \in Reqs, id \in 1..MaxLeaves, e \in Employees,
     g \in SUBSET {"fromDate", "toDate"},
     f \in LeaveDates \cup {Null}, u \in LeaveDates \cup {Null} :
       updateLeave(r, id, e, g, "none", f, u, FALSE)
UpdateConflict == \E r \in Reqs : updateLeaveConflict(r)
UpdateWrite == \E r \in Reqs : updateLeaveWrite(r)

NextLeave ==
  Apply \/ ApplyBalance \/ ApplyCreate \/ Review \/ Cancel \/ SaveLeave
    \/ LeaveTick


InitLeave == Init /\ holidays = {}

SpecLeave == InitLeave /\ [][NextLeave]_vars

\* ---- the leave ledger with its requests served one at a time, and with
\* ---- dates that carry a time of day (midnight or noon)
Quiet == \A x \in Reqs : lreq[x].pc = "idle"
\* the midnights, and noon of 31 December of the first year
LedgerDates == LeaveDates \cup { (YearDays - 1) * LDAY + 1 }
Others == {"e2"}     \* an employee who owns no application

ApplyOne ==
  /\ Quiet
  /\ \E r \in Reqs, e \in Employees, t \in LeaveTypes, f \in LedgerDates,
        u \in LedgerDates, h \in BOOLEAN : applyLeave(r, e, t, f, u, h)
ReviewOne == Quiet /\ Review
CancelOne ==
  /\ Quiet
  /\ \E r \in Reqs, id \in 1..MaxLeaves, e \in Employees \cup Others :
        cancelLeave(r, id, e)
BalanceOne == Quiet /\ \E r \in Reqs, e \in Employees : getLeaveBalanceRequest(r, e)

NextLedger ==
  ApplyOne \/ ApplyBalance \/ ApplyCreate \/ ReviewOne \/ CancelOne
    \/ SaveLeave \/ BalanceOne \/ LeaveTick

SpecLedger == InitLeave /\ [][NextLedger]_vars



\* ---- reviews whose body carries any combination of decision and reason,
\* ---- served one at a time
ReviewAny ==
  /\ Quiet
  /\ \E r \in Reqs, id \in 1..MaxLeaves, st \in {"Approved", "Rejected"},
        why \in {"none", "why"} : updateLeaveStatus(r, id, st, why)

NextReview ==
  ApplyOne \/ ApplyBalance \/ ApplyCreate \/ ReviewAny \/ SaveLeave \/ LeaveTick

SpecReview == InitLeave /\ [][NextReview]_vars

\* ---- the applications of an employee with a one-day casual allocation,
\* ---- applied for and reviewed one at a time
ApplyLimited ==
  /\ Quiet
  /\ \E r \in Reqs, e \in Limited, f \in LeaveDates, u \in LeaveDates :
        applyLeave(r, e, "Casual", f, u, FALSE)
CancelLimited ==
  /\ Quiet
  /\ \E r \in Reqs, id \in 1..MaxLeaves, e \in Limited : cancelLeave(r, id, e)

NextApprove ==
  ApplyLimited \/ ApplyBalance \/ ApplyCreate \/ ReviewOne \/ CancelLimited
    \/ SaveLeave \/ LeaveTick

SpecApprove == InitLeave /\ [][NextApprove]_vars

\* ---- applications and the employee's edits of them, served one at a time,
\* ---- all dates at midnight
ApplyEdit ==
  /\ Quiet
  /\ \E r \in Reqs, e \in Employees, f \in LeaveDates, u \in LeaveDates :
        applyLeave(r, e, "Casual", f, u, FALSE)
UpdateOne ==
  /\ Quiet
  /\ \E r \in Reqs, id \in 1..MaxLeaves, e \in Employees,
        g \in SUBSET {"fromDate", "toDate", "isHalfDay"},
        f \in LeaveDates \cup {Null}, u \in LeaveDates \cup {Null},
        h \in BOOLEAN : updateLeave(r, id, e, g, "none", f, u, h)

NextEdit ==
  ApplyEdit \/ ApplyBalance \/ ApplyCreate \/ UpdateOne \/ UpdateConflict
    \/ UpdateWrite

SpecEdit == InitLeave /\ [][NextEdit]_vars

\* ---- one application, and edits of it that interleave with its review and
\* ---- its cancellation
ApplyFirst ==
  /\ Quiet /\ leaves = {}
  /\ \E r \in Reqs, e \in Employees, f \in LeaveDates :
        applyLeave(r, e, "Casual", f, f, FALSE)
UpdateRace ==
  \E r \in Reqs, id \in 1..MaxLeaves, e \in Employees :
    \/ \E f \in LeaveDates : updateLeave(r, id, e, {"fromDate"}, "none", f, Null, FALSE)
    \/ updateLeave(r, id, e, {"type"}, "Unpaid", Null, Null, FALSE)

NextEditRace ==
  ApplyFirst \/ ApplyBalance \/ ApplyCreate \/ UpdateRace \/ UpdateConflict
    \/ UpdateWrite \/ Review \/ Cancel \/ SaveLeave

SpecEditRace == InitLeave /\ [][NextEditRace]_vars

\* ---- a Friday and a Saturday, with requests served one at a time and the
\* ---- pre-check middleware as a request of its own
GateDays == {5, 6}
InitGate ==
  /\ clock \in { d * DAY + HMS(9, 30, 0) : d \in GateDays }
  /\ holidays \in {{}, GateDays}
  /\ att = {}
  /\ nextId = 1
  /\ autoStopped = {}
  /\ req = [r \in Reqs |-> IdleReq]
  /\ resp = NoResp
  /\ lnow = 0
  /\ leaves = {}
  /\ nextLeaveId = 1
  /\ lreq = [r \in Reqs |-> IdleLeaveReq]
  /\ lresp = NoLeaveResp

PreCheckOne ==
  /\ AttQuiet
  /\ \E r \in Reqs, e \in Employees, t \in {"checkin", "checkout"} :
        preCheckBeforeUpload(r, t, e)

NextGate ==
  CheckInOne \/ CheckOutOne \/ PreCheckOne \/ Upload \/ MarkSave \/ TodayOne
    \/ TodaySave \/ TickToday

SpecGate == InitGate /\ [][NextGate]_vars

\* ---- manual entries of HR next to the employee's own requests, served one
\* ---- at a time; the date of a manual entry is a midnight or carries 09:30
ManualOne ==
  /\ AttQuiet
  /\ \E r \in Reqs, e \in Employees,
        date \in { getDayStart(clock), getDayStart(clock) + HMS(9, 30, 0) },
        checkIn \in { Null, getDayStart(clock) + HMS(9, 30, 0) } :
        createManualAttendance(r, e, date, checkIn, Null, "Present")
ManualCreate == \E r \in Reqs : createManualAttendanceCreate(r)

NextManual ==
  CheckInOne \/ CheckOutOne \/ ManualOne \/ ManualCreate \/ Upload \/ MarkSave
    \/ TodayOne \/ TodaySave \/ TickToday

SpecManual == Init /\ [][NextManual]_vars

\* =================================================================== claims
halfPoint(d) == getOfficeStart(d) + (getOfficeEnd(d) - getOfficeStart(d)) \div 2
At(h, m, sec) == Today * DAY + HMS(h, m, sec)
Done(op) == resp.pc = "done" /\ resp.op = op
WorkingDay(d) == ~isHoliday(d) /\ ~isWeekend(d)
HasCheckIn(doc) == doc.id # 0 /\ doc.checkIn # Null

\* C1: in every reachable state there is at most one attendance record per
\* (employee, calendar day), also when check-in requests for the same employee
\* and day interleave.
C1_OneRecordPerEmployeeDay ==
  \A a, b \in att :
    (a.employee = b.employee /\ getDayStart(a.date) = getDayStart(b.date)) => a = b

\* C1 witness: a check-in that read "no record" and uploaded its evidence had its
\* write refused, because an interleaved check-in wrote first.
C1_Witness ==
  /\ Done("checkin") /\ resp.doc.id = 0 /\ resp.branch = "checkin"
  /\ resp.err = "DuplicateKey"
  /\ Cardinality(att) = 1

\* C2: a check-in whose write the uniqueness constraint on (employee, day)
\* refuses is answered with Conflict, not with a generic internal error.
C2_LoserGetsConflict ==
  (Done("checkin") /\ resp.err = "DuplicateKey") => resp.res = "Conflict"

\* C2 witness: the later of two racing check-ins has been refused by the index.
C2_Witness ==
  /\ Done("checkin") /\ resp.err = "DuplicateKey"
  /\ \E a \in att : a.employee = resp.emp /\ a.date = resp.today /\ a.checkIn # Null

\* C5: for every attendance record the worked minutes are >= 0, and when both
\* checkIn and checkOut are set, checkOut is strictly later than checkIn.
C5_WorkedTimeMonotonic ==
  \A a \in att :
    /\ computeWorkedMinutes(a.checkIn, a.checkOut) >= 0
    /\ (a.checkIn # Null /\ a.checkOut # Null) => a.checkOut > a.checkIn

\* C5 witness: a check-out asked for at the very instant of the check-in was
\* refused, and the record is still open.
C5_Witness ==
  /\ Done("checkout") /\ resp.branch = "checkout" /\ resp.err = "ValidationError"
  /\ resp.now = resp.doc.checkIn
  /\ \E a \in att : a.id = resp.doc.id /\ a.checkOut = Null

\* C6: every normal check-out answers Present exactly when the whole minutes
\* between checkIn and the effective check-out (now, clamped to office end) are
\* at least 270, and Absent otherwise; 09:30 to 14:00 is 270 minutes and Present,
\* 09:30 to 13:30 is 240 minutes and Absent.
C6_ThresholdRule ==
  /\ (Done("checkout") /\ resp.branch = "checkout" /\ resp.res = "Ok") =>
       LET effective == IF resp.now > getOfficeEnd(resp.now)
                        THEN getOfficeEnd(resp.now) ELSE resp.now
           worked == (effective - resp.doc.checkIn) \div MINUTE
       IN /\ resp.data.checkOut = effective
          /\ resp.data.checkIn = resp.doc.checkIn
          /\ resp.data.status = (IF worked >= 270 THEN "Present" ELSE "Absent")
          /\ (resp.doc.checkIn = At(9, 30, 0) /\ resp.now = At(14, 0, 0)) =>
               (worked = 270 /\ resp.data.status = "Present")
  /\ computeWorkedMinutes(At(9, 30, 0), At(13, 30, 0)) = 240

\* C6 witness: check-in at 09:30, check-out at 14:00, answered Present.
C6_Witness ==
  /\ Done("checkout") /\ resp.branch = "checkout" /\ resp.res = "Ok"
  /\ resp.doc.checkIn = At(9, 30, 0) /\ resp.now = At(14, 0, 0)
  /\ resp.data.status = "Present"

\* C7: on a working day, with no check-in yet and evidence supplied (and the
\* upload and the write not failing), a check-in is accepted exactly when now is
\* at or before the midpoint of the office day, 14:00; past it the request is
\* refused and no record carries a check-in after the midpoint.
C7_HalfShiftCutoff ==
  /\ halfPoint(clock) = At(14, 0, 0)
  /\ (/\ Done("checkin") /\ resp.file /\ WorkingDay(resp.now)
      /\ ~HasCheckIn(resp.doc)
      /\ resp.err = "none" /\ resp.res # "UploadError") =>
       /\ (resp.res = "Ok") <=> (resp.now <= halfPoint(resp.now))
       /\ (resp.now > halfPoint(resp.now)) => resp.res = "PreconditionFailed"
       /\ (resp.res = "Ok") =>
            \E a \in att : a.id = resp.data.id /\ a.checkIn = resp.now
  /\ \A a \in att : a.checkIn # Null => a.checkIn <= halfPoint(a.checkIn)

\* C7 witness: a check-in exactly at the midpoint has been accepted.
C7_Witness ==
  /\ Done("checkin") /\ resp.res = "Ok" /\ resp.now = At(14, 0, 0)
  /\ \E a \in att : a.checkIn = At(14, 0, 0)

\* C7 second case, reached as well: a check-in at 14:01 refused, nothing stored.
C7_Refused ==
  /\ Done("checkin") /\ resp.file /\ resp.now = At(14, 1, 0)
  /\ resp.res = "PreconditionFailed" /\ att = {}

\* C8: auto-stop is idempotent: a status query after office end that finds the
\* record already auto-stopped returns that record with the same checkOut and
\* status and with sessionStatus = auto-stopped, and writes nothing.
C8_AutoStopIdempotent ==
  (/\ Done("today") /\ resp.now > getOfficeEnd(resp.now)
   /\ resp.doc.id \in autoStopped /\ resp.doc.checkOut # Null) =>
     /\ ~resp.wrote
     /\ resp.data.checkOut = resp.doc.checkOut
     /\ resp.data.status = resp.doc.status
     /\ resp.data.sessionStatus = "auto-stopped"

\* C8, the part that the code keeps: the second query writes nothing and returns
\* the stored checkOut and status.
C8_SecondQueryReadsOnly ==
  (/\ Done("today") /\ resp.now > getOfficeEnd(resp.now)
   /\ resp.doc.id \in autoStopped /\ resp.doc.checkOut # Null) =>
     /\ ~resp.wrote
     /\ resp.data.checkOut = getOfficeEnd(resp.now)
     /\ resp.data.status = resp.doc.status

\* C9: the session of a day only moves forward.  A check-in (with evidence) that
\* finds checkIn set is answered Conflict; no step changes a checkIn that is set
\* or unsets a checkOut, so a closed session never becomes active or idle again.
C9_Step ==
  /\ \A a \in att : a.checkIn # Null =>
       \E b \in att' : /\ b.id = a.id /\ b.checkIn = a.checkIn
                       /\ (a.checkOut # Null => b.checkOut # Null)
  /\ (resp'.pc = "done" /\ resp'.op = "checkin" /\ HasCheckIn(resp'.doc)) =>
       /\ resp'.res # "Ok"
       /\ att' = att
       /\ (resp'.file /\ WorkingDay(resp'.now)) => resp'.res = "Conflict"
C9_SessionMovesForward == [][C9_Step]_vars

\* C9 witness: after a check-out a retried check-in was answered Conflict.
C9_Witness ==
  /\ Done("checkin") /\ resp.res = "Conflict" /\ HasCheckIn(resp.doc)
  /\ resp.doc.checkOut # Null

\* ------------------------------------------------ claims on the leave ledger
Overlap(a, b) == a.fromDate <= b.toDate /\ a.toDate >= b.fromDate

\* the Pending or Approved applications of employee e that meet [from, to]
OpenOverlapping(e, from, to) ==
  { l \in leaves : /\ l.employee = e
                   /\ l.status \in Open
                   /\ l.fromDate <= to /\ l.toDate >= from }

C4_Step ==
  /\ (lresp'.op = "apply" /\ lresp'.res = "Conflict") =>
       /\ OpenOverlapping(lresp'.emp, lresp'.fromDate, lresp'.toDate) # {}
       /\ leaves' = leaves
  /\ \A r \in Reqs :
       (lreq[r].pc = "idle" /\ lreq'[r].pc = "balance") =>
         OpenOverlapping(lreq'[r].emp, lreq'[r].fromDate, lreq'[r].toDate) = {}
C4_ConflictExactlyOnOverlap == [][C4_Step]_vars

\* an application that ends on day d refuses a request that starts on day d
C4_Witness ==
  /\ lresp.op = "apply" /\ lresp.res = "Conflict"
  /\ lresp.fromDate < lresp.toDate
  /\ \E l \in leaves :
       /\ l.status = "Approved" /\ l.fromDate < l.toDate
       /\ l.toDate = lresp.fromDate

\* C10: the status of an application only changes along Pending -> Approved,
\* Pending -> Rejected, Pending -> Cancelled and Approved -> Cancelled.
AllowedTransitions ==
  { <<"Pending", "Approved">>, <<"Pending", "Rejected">>,
    <<"Pending", "Cancelled">>, <<"Approved", "Cancelled">> }

C10_Step ==
  \A a \in leaves : \A b \in leaves' :
    (a.id = b.id /\ a.status # b.status) =>
      <<a.status, b.status>> \in AllowedTransitions
C10_StatusOneWay == [][C10_Step]_vars

\* ------------------------------------------------------- claims C11 - C14
\* the calendar year an instant falls in
CalendarYear(d) == d \div (YearDays * LDAY)

\* the Approved applications of employee e under balance key k that start in
\* the calendar year of now
CountedLeaves(e, k) ==
  { l \in leaves : /\ l.employee = e
                   /\ l.status = "Approved"
                   /\ toLowerCase(l.type) = k
                   /\ CalendarYear(l.fromDate) = CalendarYear(lnow) }

\* C11: getLeaveBalance answers, per allocated type, used = the sum of
\* totalDays over the employee's Approved applications of the type whose
\* fromDate falls in the current calendar year, and remaining = allocated -
\* used, unclamped; other statuses do not count.
C11_BalanceOfTheYear ==
  (lresp.op = "balance") =>
    \A k \in DOMAIN lresp.balance :
      LET used == SumTotalDays(CountedLeaves(lresp.emp, k))
      IN /\ lresp.balance[k].allocated = 2 * leaveBalanceOf(lresp.emp)[k]
         /\ lresp.balance[k].used = used
         /\ lresp.balance[k].remaining = 2 * leaveBalanceOf(lresp.emp)[k] - used

\* the application a step stores
Created == { l \in leaves' : \A k \in leaves : k.id # l.id }

\* C12: for a type other than Unpaid that has an allocation, applyLeave stores
\* an application only if the remaining balance it read is positive and the
\* stored totalDays does not exceed it.
C12_Step ==
  \A r \in Reqs : \A l \in Created :
    (lreq[r].pc = "create" /\ lreq'[r].pc = "idle" /\ l.type # "Unpaid"
       /\ toLowerCase(l.type) \in DOMAIN leaveBalanceOf(l.employee)) =>
      /\ lreq[r].remaining > 0
      /\ l.totalDays <= lreq[r].remaining
LeaveById(store, i) == CHOOSE l \in store : l.id = i

\* what the claim requires of a cancellation of application l by employee e
MayCancel(e, l) ==
  l.employee = e /\ l.status \in {"Pending", "Approved"} /\ lnow < l.fromDate

\* C13: cancelLeave sets status = Cancelled if and only if the caller owns the
\* application, its status is Pending or Approved and now < fromDate;
\* otherwise the request is refused and the application is unchanged.
C13_Step ==
  /\ (lresp'.op = "cancel" /\ lresp'.res # "Ok") =>
       /\ ~MayCancel(lresp'.emp, LeaveById(leaves, lresp'.id))
       /\ leaves' = leaves
  /\ \A r \in Reqs :
       (lreq[r].pc = "idle" /\ lreq'[r].op = "cancel") =>
         MayCancel(lreq'[r].emp, LeaveById(leaves, lreq'[r].doc.id))
  /\ \A r \in Reqs :
       (lreq[r].op = "cancel" /\ lreq'[r].pc = "idle") =>
         /\ lresp'.op = "cancel" /\ lresp'.res = "Ok"
         /\ LeaveById(leaves', lresp'.id).status = "Cancelled"
         /\ \A l \in leaves : l.id # lresp'.id => l \in leaves'
C13_CancelOnlyBeforeStart == [][C13_Step]_vars

\* an Approved application that starts tomorrow has been cancelled
C13_Witness ==
  /\ lresp.op = "cancel" /\ lresp.res = "Ok"
  /\ \E l \in leaves :
       /\ l.id = lresp.id /\ l.status = "Cancelled" /\ l.approvedBy = "hr"
       /\ l.fromDate = lnow + LDAY

\* a cancellation at the very instant the leave starts has been refused
C13_Refused ==
  /\ lresp.op = "cancel" /\ lresp.res = "PreconditionFailed"
  /\ \E l \in leaves :
       l.id = lresp.id /\ l.status = "Approved" /\ l.fromDate = lnow

C14_HalfADayOnlyWithFlag ==
  \A l \in leaves : l.totalDays >= 1 /\ (l.totalDays = 1 => l.isHalfDay)

\* ------------------------------------------------------- claims C15 - C20
\* the stored record with id i
RecordById(i) == CHOOSE rec \in att : rec.id = i

\* a normal check-out has just been stored and answered
CheckedOut == Done("checkout") /\ resp.res = "Ok" /\ resp.branch = "checkout"

\* C15: a normal check-out stores checkOut = now when now <= officeEnd and
\* checkOut = officeEnd when now > officeEnd, so no record closed by check-out
\* or auto-stop has a checkOut past the office end of its day.
OfficeEndOf(t) == (t \div DAY) * DAY + HMS(18, 30, 0)

C15_CheckoutCappedAtOfficeEnd ==
  /\ \A rec \in att :
       rec.checkOut # Null => rec.checkOut <= OfficeEndOf(rec.date)
  /\ CheckedOut =>
       RecordById(resp.doc.id).checkOut =
         IF resp.now <= OfficeEndOf(resp.now) THEN resp.now
         ELSE OfficeEndOf(resp.now)

\* the part that holds: the stored checkOut is min(now, officeEnd of now)
C15_CheckoutIsMinOfNowAndOfficeEnd ==
  CheckedOut =>
    RecordById(resp.doc.id).checkOut =
      IF resp.now <= OfficeEndOf(resp.now) THEN resp.now
      ELSE OfficeEndOf(resp.now)

\* a status query has just stored an auto-stop and answered
AutoStopStored ==
  Done("today") /\ resp.res = "Ok" /\ resp.branch = "autostop" /\ resp.wrote

\* C16: a status query after office end leaves an open record with the
\* checkOut (= officeEnd), the worked time, the status and the sessionStatus
\* (auto-stopped) that a normal check-out at the same instant would have stored.
C16_AutoStopAgreesWithCheckout ==
  AutoStopStored =>
    LET rec == Load(RecordById(resp.doc.id))
        out == checkOutDoc(resp)
    IN /\ rec.checkOut = OfficeEndOf(resp.now)
       /\ rec.checkOut = out.checkOut
       /\ rec.status = out.status
       /\ computeWorkedMinutes(rec.checkIn, rec.checkOut)
            = computeWorkedMinutes(out.checkIn, out.checkOut)
       /\ out.sessionStatus = "auto-stopped"
       /\ rec.sessionStatus = "auto-stopped"

\* the part that holds: the same checkOut, worked time and status
C16_SameCheckoutAndStatus ==
  AutoStopStored =>
    LET rec == RecordById(resp.doc.id)
        out == Stored(checkOutDoc(resp))
    IN /\ rec.checkOut = OfficeEndOf(resp.now)
       /\ rec.checkOut = out.checkOut
       /\ rec.status = out.status
       /\ rec.checkIn = out.checkIn

\* C17: a session opened by check-in and closed at office end (by auto-stop or
\* by a check-out requested after office end) has worked at least
\* MIN_PRESENT_MINUTES and has status Present.
C17_ClosedAtOfficeEndIsPresent ==
  \A rec \in att :
    (rec.checkIn # Null /\ rec.checkOut = rec.date + HMS(18, 30, 0)) =>
      /\ (rec.checkOut - rec.checkIn) \div 60 >= 270
      /\ rec.status = "Present"

\* a session opened at the midpoint has been closed at office end
C17_Witness ==
  \E rec \in att :
    /\ rec.checkIn = At(14, 0, 0) /\ rec.checkOut = At(18, 30, 0)
    /\ rec.status = "Present"

\* slot r takes up a request of kind op in this step
Starts(r, op) ==
  /\ req[r].pc = "idle"
  /\ \/ req'[r].op = op
     \/ (req' = req /\ resp'.pc = "done" /\ resp'.op = op)

\* the request slot r takes up, as the step leaves it
Started(r) == IF req'[r].pc # "idle" THEN req'[r] ELSE resp'

\* the records of employee e that a normal check-out (with evidence) closed last
ClosedByCheckOut(e) ==
  { rec \in att : rec.employee = e /\ rec.checkOut # Null
                  /\ rec.id \notin autoStopped }

\* C18: once a normal check-out with evidence is stored, every later check-out
\* request of the employee on that day is refused with Conflict and changes
\* nothing.
C18_Step ==
  \A r \in Reqs :
    (Starts(r, "checkout") /\ WorkingDay(clock)
       /\ ClosedByCheckOut(Started(r).emp) # {}) =>
      /\ resp'.pc = "done" /\ resp'.res = "Conflict"
      /\ att' = att
C18_CheckedOutIsFinal == [][C18_Step]_vars

\* the part that holds: such a request never changes the stored record
C18_StoreStep ==
  \A r \in Reqs :
    (req[r].branch = "patch" /\ req[r].pc = "save" /\ req'[r].pc = "idle") =>
      att' = att
C18_LateEvidenceStoresNothing == [][C18_StoreStep]_vars

\* C19: a late-evidence patch only adds the evidence URL: it changes no stored
\* checkIn, checkOut or status, and the record it reaches is the one of the
\* calendar day of now, never one of an earlier day.
C19_Step ==
  \A r \in Reqs :
    (req[r].branch = "patch" /\ req[r].pc = "save" /\ req'[r].pc = "idle"
       /\ resp'.res = "Ok") =>
      /\ att' = att
      /\ resp'.data = [req[r].doc EXCEPT !.punchOutImageUrl = "url"]
      /\ req[r].doc.date = (req[r].now \div DAY) * DAY
C19_PatchAddsEvidenceOnly == [][C19_Step]_vars

\* a patch has been answered while a closed record of an earlier day exists
C19_Witness ==
  /\ Done("checkout") /\ resp.branch = "patch" /\ resp.res = "Ok"
  /\ resp.data.punchOutImageUrl = "url"
  /\ \E rec \in att : rec.date < resp.doc.date /\ rec.checkOut # Null

\* a patch that reached the record of the day before has been refused
C19_Refused ==
  /\ Done("checkout") /\ resp.res = "PreconditionFailed"
  /\ resp.doc.checkOut # Null
  /\ resp.doc.date < (resp.now \div DAY) * DAY

\* C20: the record is written only after the Evidence Store has returned a
\* URL; a failed upload is answered as an upload failure and leaves the
\* attendance store as it was (no record created, no field changed).
C20_Step ==
  /\ att' # att =>
       \E r \in Reqs : req[r].pc \in {"save", "autostop"} /\ req'[r].pc = "idle"
  /\ \A r \in Reqs :
       (req'[r].pc = "save" /\ req[r].pc # "save") => req[r].pc = "upload"
  /\ \A r \in Reqs :
       (req[r].pc = "upload" /\ req'[r].pc = "idle") =>
         /\ resp'.res = "UploadError"
         /\ att' = att /\ nextId' = nextId
C20_UploadBeforeCommit == [][C20_Step]_vars

\* the upload of a first check-in has failed and no record exists
C20_Witness ==
  /\ Done("checkin") /\ resp.res = "UploadError"
  /\ att = {}

\* the upload of a check-out has failed and the record is still open
C20_WitnessCheckOut ==
  /\ Done("checkout") /\ resp.res = "UploadError"
  /\ \E rec \in att : rec.id = resp.doc.id /\ rec.checkOut = Null

\* ------------------------------------------------------- claims C21 - C30
\* a check-in has just been stored and answered
CheckedIn == Done("checkin") /\ resp.res = "Ok" /\ resp.branch = "checkin"

\* C21: a successful check-in leaves the day's stored record with checkIn =
\* now, sessionStatus = active, status = Absent, checkOut unset, and the
\* check-in evidence URL and location recorded; so every stored record of an
\* open session has status Absent.
C21_CheckInStored ==
  /\ CheckedIn =>
       LET rec == Load(RecordById(resp.data.id))
       IN /\ rec.employee = resp.emp /\ rec.date = resp.today
          /\ rec.checkIn = resp.now
          /\ rec.sessionStatus = "active"
          /\ rec.status = "Absent"
          /\ rec.checkOut = Null
          /\ rec.punchInImageUrl = "url"
          /\ rec.checkInLocation = "loc"
  /\ \A rec \in att :
       (rec.checkIn # Null /\ rec.checkOut = Null) => rec.status = "Absent"

\* the part that holds: the paths the schema declares are stored as claimed
C21_CheckInStoresDeclaredPaths ==
  /\ CheckedIn =>
       LET rec == RecordById(resp.data.id)
       IN /\ rec.employee = resp.emp /\ rec.date = resp.today
          /\ rec.checkIn = resp.now
          /\ rec.status = "Absent"
          /\ rec.checkOut = Null
          /\ rec.checkInLocation = "loc"
  /\ \A rec \in att :
       (rec.checkIn # Null /\ rec.checkOut = Null) => rec.status = "Absent"


\* C22: updateLeaveStatus on an application that is not Pending is refused
\* ("already processed") and changes nothing stored; on a Pending application
\* it stores the decision as the status, the reviewer and the review time.
C22_Step ==
  /\ (lresp'.op = "review" /\ lreq' = lreq) =>
       /\ lresp'.res = "Conflict"
       /\ LeaveById(leaves, lresp'.id).status # "Pending"
       /\ leaves' = leaves
  /\ \A r \in Reqs :
       /\ (lreq[r].pc = "idle" /\ lreq'[r].op = "review") =>
            /\ LeaveById(leaves, lreq'[r].doc.id).status = "Pending"
            /\ lreq'[r].doc = LeaveById(leaves, lreq'[r].doc.id)
            /\ lreq'[r].now = lnow
            /\ leaves' = leaves
       /\ (lreq[r].op = "review" /\ lreq[r].pc = "save" /\ lreq'[r].pc = "idle") =>
            LET l == LeaveById(leaves', lreq[r].doc.id)
            IN /\ lresp'.res = "Ok"
               /\ l.status = lreq[r].status
               /\ l.approvedBy = "hr"
               /\ l.approvedDate = lreq[r].now
C22_ReviewOnlyWhilePending == [][C22_Step]_vars

\* C22 witness: a review of an application that a reviewer approved earlier
\* has just been refused.
C22_Witness ==
  /\ lresp.op = "review" /\ lresp.res = "Conflict"
  /\ \E l \in leaves :
       /\ l.id = lresp.id /\ l.status = "Approved"
       /\ l.approvedBy = "hr" /\ l.approvedDate # Null


\* C23: a Rejected decision that carries no rejection reason is refused and
\* the application stays Pending, so every application in status Rejected has
\* a reason recorded.
C23_Step ==
  \A r \in Reqs :
    ~(lreq[r].pc = "idle" /\ lreq'[r].op = "review"
        /\ lreq'[r].status = "Rejected" /\ lreq'[r].reason = "none")
C23_RejectedHasReason ==
  \A l \in leaves : l.status = "Rejected" => l.rejectionReason # "none"

\* the refusal itself: no Rejected decision without a reason reaches the save
C23_NoReasonIsRefused == [][C23_Step]_vars


\* C24: the balance check of applyLeave never refuses an application of the
\* Unpaid type, whatever the remaining Unpaid balance is (the default
\* allocation is 0): it always goes on to Leave.create.
C24_Step ==
  \A r \in Reqs :
    (lreq[r].pc = "balance" /\ lreq[r].type = "Unpaid" /\ lreq'[r] # lreq[r]) =>
      lreq'[r].pc = "create"
C24_UnpaidPassesBalanceCheck == [][C24_Step]_vars

\* what the code does instead: with the default allocation no Unpaid
\* application is ever stored
C24_UnpaidNeverStored == \A l \in leaves : l.type # "Unpaid"


\* C25: once checkOut is set on a record by a check-out or by auto-stop, no
\* later or concurrently running check-out, late-evidence patch or status
\* query changes its checkOut or its status; of two interleaving check-outs
\* the second to write does not overwrite the first.
C25_Step ==
  \A rec \in att :
    rec.checkOut # Null =>
      \E kept \in att' :
        /\ kept.id = rec.id
        /\ kept.checkOut = rec.checkOut
        /\ kept.status = rec.status
C25_CheckOutWrittenOnce == [][C25_Step]_vars


\* the half days of the Approved applications of kind k that employee e has in
\* calendar year y
ApprovedInYear(e, k, y) ==
  SumTotalDays({ l \in leaves : /\ l.employee = e /\ l.status = "Approved"
                                /\ toLowerCase(l.type) = k
                                /\ CalendarYear(l.fromDate) = y })

\* C26: for a limited leave type the total of totalDays over an employee's
\* Approved applications of that type in the current year never exceeds the
\* allocation, after any sequence of applyLeave, updateLeaveStatus and
\* cancelLeave requests.
C26_ApprovedWithinAllocation ==
  \A e \in Employees \cup Limited :
    ApprovedInYear(e, "casual", CalendarYear(lnow)) <= 2 * leaveBalanceOf(e)["casual"]


\* the inclusive day count of an application whose dates are midnights, in
\* half days
InclusiveDays(l) == 2 * ((l.toDate - l.fromDate) \div LDAY + 1)

\* C27: every stored application has totalDays in agreement with its current
\* fromDate, toDate and isHalfDay (half a day for a single-day half-day,
\* otherwise the inclusive day count), after any sequence of applyLeave and
\* updateLeave requests.
C27_TotalDaysFollowsDates ==
  \A l \in leaves :
    l.totalDays = IF l.isHalfDay /\ l.fromDate = l.toDate THEN 1
                  ELSE InclusiveDays(l)

\* the part that holds: an application is stored by applyLeave with totalDays
\* in agreement with its dates and flag
C27_Step ==
  \A l \in Created :
    l.totalDays = IF l.isHalfDay /\ l.fromDate = l.toDate THEN 1
                  ELSE InclusiveDays(l)
C27_AgreesWhenCreated == [][C27_Step]_vars


\* C28: the type, fromDate and toDate of an application change only while its
\* stored status is Pending: no write of updateLeave, also when it interleaves
\* with an updateLeaveStatus or cancelLeave on the same application, lands on
\* an application that is Approved, Rejected or Cancelled.
C28_Step ==
  \A l \in leaves : \A n \in leaves' :
    (n.id = l.id /\ <<n.type, n.fromDate, n.toDate>> # <<l.type, l.fromDate, l.toDate>>)
      => l.status = "Pending"
C28_EditedOnlyWhilePending == [][C28_Step]_vars


\* employee e may check in at the instant of the clock: no weekend, no
\* holiday, no check-in yet today, and the clock neither past the office end
\* nor past the midpoint of the office day
Eligible(e) ==
  /\ ~isWeekend(clock)
  /\ ~isHoliday(clock)
  /\ \A rec \in att :
       (rec.employee = e /\ getDayStart(rec.date) = getDayStart(clock)) =>
         rec.checkIn = Null
  /\ clock <= OfficeEndOf(clock)
  /\ clock <= halfPoint(clock)

\* C29: the three places that decide check-in eligibility agree: at every
\* state and instant canCheckIn of getTodayAttendance, the passing on of a
\* check-in by preCheckBeforeUpload, and the passing of the check-in
\* preconditions of markAttendance (with evidence) are all the same condition.
C29_Step ==
  \A r \in Reqs :
    /\ (Starts(r, "today") /\ resp'.pc = "done") =>
         resp'.canCheckIn = Eligible(resp'.emp)
    /\ (Starts(r, "today") /\ resp'.pc # "done") => ~Eligible(req'[r].emp)
    /\ (req[r].pc = "autostop" /\ req'[r].pc = "idle") => ~resp'.canCheckIn
    /\ (Starts(r, "precheck") /\ resp'.branch = "checkin") =>
         (resp'.res = "Next") = Eligible(resp'.emp)
    /\ (Starts(r, "checkin") /\ Started(r).file /\ clock' = clock) =>
         (req'[r].pc = "upload") = Eligible(Started(r).emp)
C29_EligibilityAgrees == [][C29_Step]_vars

\* C29 witness: at the midpoint of a working day, before any check-in, the
\* pre-check has just handed a check-in on.
C29_Witness ==
  /\ Done("precheck") /\ resp.branch = "checkin" /\ resp.res = "Next"
  /\ clock = halfPoint(clock)

\* a check-in has just been refused by the pre-check because of an earlier
\* check-in
C29_Refused ==
  /\ Done("precheck") /\ resp.branch = "checkin" /\ resp.res = "Conflict"


\* C30: createManualAttendance never creates a second record for an employee
\* on a calendar day that already has one, whatever time of day the date of
\* the body carries; so also with manual entries next to check-ins no two
\* records share an employee and a calendar day.
C30_Step ==
  /\ \A r \in Reqs :
       (req[r].op = "manual" /\ req[r].pc = "create" /\ att' # att) =>
         ~\E rec \in att :
            /\ rec.employee = req[r].emp
            /\ getDayStart(rec.date) = getDayStart(req[r].today)
  /\ \A a, b \in att' :
       (a.employee = b.employee /\ getDayStart(a.date) = getDayStart(b.date))
         => a.id = b.id
C30_ManualEntryKeepsOnePerDay == [][C30_Step]_vars

\* the part that holds: a manual entry whose date is a midnight is refused
\* when the day has a record
C30_MidnightStep ==
  \A r \in Reqs :
    (req[r].op = "manual" /\ req[r].pc = "create" /\ att' # att
       /\ req[r].today = getDayStart(req[r].today)) =>
      ~\E rec \in att :
         /\ rec.employee = req[r].emp
         /\ rec.date = getDayStart(req[r].today)
C30_MidnightEntryIsChecked == [][C30_MidnightStep]_vars
====
